---------------------------- MODULE Spec2Model ----------------------------
(***************************************************************************)
(* The gRPC reporter of v1/tv/internal/traceview/reporter.go: the event    *)
(* pipeline (reportEvents / postEvents) and the periodic controller        *)
(* (periodic, sendMetrics, sendStatus, getSettings, healthCheck,           *)
(* reconnect, processRedirect) with the Sender retry bookkeeping.          *)
(*                                                                         *)
(* Time is an integer number of abstract time units; the zero time.Time{}  *)
(* is 0 and the wall clock starts at 1.  A byte buffer is represented by   *)
(* its length and the ordinal of its submission.  A Go runtime panic in    *)
(* any goroutine ends the process: every action is guarded by Alive.       *)
(***************************************************************************)
EXTENDS Integers, Sequences, FiniteSets, TLC

\* ------------------------------------------------------------------ bounds
\* buffers submitted to the event pipeline between two flushes
MaxSubmit == 3
\* calls of RequestToClose over one run
MaxCloseRequests == 2
\* last instant of the wall clock explored under Spec, SpecConn and SpecRetry
MaxTime == 2
MaxTimeConn == 3
MaxTimeRetry == 4
\* largest advance of the wall clock between two iterations of periodic
MaxStep == 1
\* status messages waiting in sMsgs when loadStatusMsgs drains it
MaxStatusLoad == 1
MaxPendingBytes == 30

\* time.Second and time.Minute in the model's time unit (scaled: the code
\* uses Second only as the multiplier of the reconnect interval and Minute
\* only as the hard cap of Sender.nextRetryDelay)
Second == 1
Minute == 4

\* sizes of the event buffers producers submit
EventSizes == {5, 10, 20, 25, 30}

\* ----------------------------------------------------------------- helpers
Min(a, b) == IF a < b THEN a ELSE b

RECURSIVE SumLen(_)
SumLen(q) == IF q = <<>> THEN 0 ELSE Head(q).len + SumLen(Tail(q))

RECURSIVE Pow(_, _)
Pow(b, n) == IF n = 0 THEN 1 ELSE b * Pow(b, n - 1)

\* ---------------------------------------------------------------- settings
\* The configuration bundle handed to newGRPCReporterWithConfig.  The values
\* are a small test configuration; maxRetryInterval is drawn from two values,
\* one of them the default (time.Minute).
Configs ==
    { [ maxEventBytes                 |-> 25,
        agentMetricsInterval          |-> 1,
        agentMetricsTickInterval      |-> 1,
        retryAmplifier                |-> 2,
        initialRetryInterval          |-> 1,
        maxRetryInterval              |-> m,
        maxMetricsRetries             |-> 2,
        maxConnRedirects              |-> 2,
        maxConnRetries                |-> 1,
        metricsConnKeepAliveInterval  |-> 3,
        maxMetricsMessagesOnePost     |-> 2,
        agentSettingsInterval         |-> 3,
        agentCheckSettingsTTLInterval |-> 2 ] : m \in {Minute \div 2, Minute} }

VARIABLES
    r,                \* the grpcReporter: serverAddr, s, metricsConn, metrics, status, settings
    clock,            \* the wall clock (time.Now())
    pcPeriodic,       \* position of the periodic goroutine
    checkTTLTimeout,  \* local of periodic
    exit,             \* r.exit: callers of RequestToClose blocked in the send
    drain,            \* the reportEvents goroutine: its locals and position
    poster,           \* the postEvents goroutine: its position and batch
    submitted,        \* history: lengths of the buffers submitted since the last flush
    closeCalls,       \* history: calls of RequestToClose so far
    closeReturned,    \* history: calls of RequestToClose that have returned
    polledSinceClose, \* history: periodic ran its exit check after a close request returned
    rep,              \* a caller of reportEvent: its position, arguments and result
    push,             \* history: the last call of PushMetricsRecord
    glob,             \* the package variables behind globalReporter()
    callers,          \* the goroutines that call globalReporter()
    timer             \* time since reportEvents entered its select (its time.After timer)

vars == << r, clock, pcPeriodic, checkTTLTimeout, exit, drain, poster,
           submitted, closeCalls, closeReturned, polledSinceClose,
           rep, push, glob, callers, timer >>

facadeVars == << rep, push, glob, callers >>
timerVars == << timer >>

periodicVars == << r, clock, pcPeriodic, checkTTLTimeout, polledSinceClose >>
eventVars == << drain, poster, submitted >>
closeVars == << exit, closeCalls, closeReturned >>

\* ------------------------------------------------------------ event pipeline

\* for dropped := 0; dropped < len(evbuf); { oldest, batch = batch[0], batch[1:] ... }
\* batch[0] of an empty batch is an index-out-of-range panic.
RECURSIVE evictLoop(_, _, _)
evictLoop(batch, dropped, need) ==
    IF dropped < need
    THEN IF batch = <<>>
         THEN [panic |-> TRUE, batch |-> <<>>]
         ELSE evictLoop(Tail(batch), dropped + Head(batch).len, need)
    ELSE [panic |-> FALSE, batch |-> batch]

\* the mutant of handleEvent: the test for an oversize buffer is missing
handleEvent_NoOversizeDrop(d, evbuf, maxEventBytes) ==
    IF d.eventBytes + evbuf.len > maxEventBytes
    THEN LET ev == evictLoop(d.batch, 0, evbuf.len)
         IN  IF ev.panic
             THEN [d EXCEPT !.pc = "panic", !.batch = ev.batch]
             ELSE [d EXCEPT !.batch = Append(ev.batch, evbuf),
                            !.eventBytes = @ + evbuf.len]
    ELSE [d EXCEPT !.batch = Append(@, evbuf), !.eventBytes = @ + evbuf.len]

\* case evbuf := <-r.ch
handleEvent(d, evbuf, maxEventBytes) ==
    IF d.eventBytes + evbuf.len > maxEventBytes
    THEN IF evbuf.len >= maxEventBytes
         THEN d
         ELSE LET ev == evictLoop(d.batch, 0, evbuf.len)
              IN  IF ev.panic
                  THEN [d EXCEPT !.pc = "panic", !.batch = ev.batch]
                  ELSE [d EXCEPT !.batch = Append(ev.batch, evbuf),
                                 !.eventBytes = @ + evbuf.len]
    ELSE [d EXCEPT !.batch = Append(@, evbuf), !.eventBytes = @ + evbuf.len]

\* the mutant of flushBatch: the test of logIsRunning is missing
flushBatch_IgnoresRunning(d) ==
    IF Len(d.batch) > 0
    THEN IF d.batchesClosed
         THEN [d EXCEPT !.logIsRunning = TRUE, !.pc = "panic"]
         ELSE [d EXCEPT !.logIsRunning = TRUE, !.pc = "send"]
    ELSE d

\* flushBatch up to its channel send; the send on the unbuffered channel
\* batches blocks until the poster receives (BatchesHandoff), and a send on
\* the closed channel panics.
flushBatch(d) ==
    IF ~d.logIsRunning /\ Len(d.batch) > 0
    THEN IF d.batchesClosed
         THEN [d EXCEPT !.logIsRunning = TRUE, !.pc = "panic"]
         ELSE [d EXCEPT !.logIsRunning = TRUE, !.pc = "send"]
    ELSE d

newDrain == [pc |-> "select", batch |-> <<>>, eventBytes |-> 0,
             logIsRunning |-> FALSE, batchesClosed |-> FALSE]

newPoster == [pc |-> "recv", batch |-> <<>>, retClosed |-> FALSE]

\* no goroutine has panicked
Alive == drain.pc # "panic" /\ pcPeriodic # "panic"

\* WritePacket: r.ch <- buf, received by the select of reportEvents
WritePacket ==
    /\ Alive
    /\ drain.pc = "select"
    /\ Len(submitted) < MaxSubmit
    /\ \E n \in EventSizes :
         /\ submitted' = Append(submitted, n)
         /\ drain' = handleEvent(drain, [seq |-> Len(submitted) + 1, len |-> n],
                                 r.s.maxEventBytes)
    /\ UNCHANGED << poster, periodicVars, closeVars, facadeVars, timerVars >>

\* case result := <-results, the poster delivering a result
RecvResult ==
    /\ Alive
    /\ drain.pc = "select"
    /\ poster.pc = "send"
    /\ drain' = flushBatch([drain EXCEPT !.logIsRunning = FALSE])
    /\ poster' = [poster EXCEPT !.pc = "recv", !.batch = <<>>]
    /\ UNCHANGED << submitted, periodicVars, closeVars, facadeVars, timerVars >>

\* case result := <-results on the closed results channel: nil, at once
RecvClosedResult ==
    /\ Alive
    /\ drain.pc = "select"
    /\ poster.retClosed
    /\ drain' = flushBatch([drain EXCEPT !.logIsRunning = FALSE])
    /\ UNCHANGED << poster, submitted, periodicVars, closeVars, facadeVars, timerVars >>

\* case <-time.After(r.s.grpcReporterFlushTimeout)
FlushTimeout ==
    /\ Alive
    /\ drain.pc = "select"
    /\ drain' = flushBatch(drain)
    /\ UNCHANGED << poster, submitted, periodicVars, closeVars, facadeVars, timerVars >>

\* batches <- batch completes: the poster's range receives the batch, and
\* flushBatch goes on with batch = nil, eventBytes = 0
BatchesHandoff ==
    /\ Alive
    /\ drain.pc = "send"
    /\ poster.pc = "recv"
    /\ ~drain.batchesClosed
    /\ poster' = [poster EXCEPT !.pc = "rpc", !.batch = drain.batch]
    /\ drain' = [drain EXCEPT !.pc = "select", !.batch = <<>>, !.eventBytes = 0]
    /\ submitted' = <<>>
    /\ UNCHANGED << periodicVars, closeVars, facadeVars, timerVars >>

\* r.client.PostEvents returns (whatever the result, which is not inspected)
PostEventsReturn ==
    /\ Alive
    /\ poster.pc = "rpc"
    /\ poster' = [poster EXCEPT !.pc = "send"]
    /\ UNCHANGED << drain, submitted, periodicVars, closeVars, facadeVars, timerVars >>

\* for batch := range batches ends on the closed channel; close(ret)
PosterRangeEnd ==
    /\ Alive
    /\ poster.pc = "recv"
    /\ drain.batchesClosed
    /\ poster' = [poster EXCEPT !.pc = "done", !.retClosed = TRUE]
    /\ UNCHANGED << drain, submitted, periodicVars, closeVars, facadeVars, timerVars >>

\* case <-r.exit: close(batches); break  (the break leaves the select only)
EventsExit ==
    /\ Alive
    /\ drain.pc = "select"
    /\ exit > 0
    /\ exit' = exit - 1
    /\ closeReturned' = closeReturned + 1
    /\ drain' = IF drain.batchesClosed
                THEN [drain EXCEPT !.pc = "panic"]
                ELSE [drain EXCEPT !.batchesClosed = TRUE]
    /\ UNCHANGED << poster, submitted, closeCalls, periodicVars, facadeVars, timerVars >>

\* ---------------------------------------------- the pipeline with its timer

\* grpcReporterFlushTimeout (100 ms), in units of 50 ms
grpcReporterFlushTimeout == 2

\* time passes while reportEvents waits in its select; every pass of the for
\* loop evaluates time.After anew, so the timer runs from the moment the
\* select was entered
Tick ==
    /\ Alive
    /\ drain.pc = "select"
    /\ timer < grpcReporterFlushTimeout
    /\ timer' = timer + 1
    /\ UNCHANGED << eventVars, periodicVars, closeVars, facadeVars >>

\* case evbuf := <-r.ch, then the select is entered again with a new timer
TimedWritePacket ==
    /\ Alive
    /\ drain.pc = "select"
    /\ \E n \in EventSizes :
         LET d == handleEvent(drain, [seq |-> 0, len |-> n], r.s.maxEventBytes)
         IN  /\ d.eventBytes <= MaxPendingBytes
             /\ drain' = d
    /\ timer' = 0
    /\ UNCHANGED << poster, submitted, periodicVars, closeVars, facadeVars >>

\* case result := <-results, then the select is entered again with a new timer
TimedRecvResult ==
    /\ Alive
    /\ drain.pc = "select"
    /\ poster.pc = "send"
    /\ drain' = flushBatch([drain EXCEPT !.logIsRunning = FALSE])
    /\ poster' = [poster EXCEPT !.pc = "recv", !.batch = <<>>]
    /\ timer' = 0
    /\ UNCHANGED << submitted, periodicVars, closeVars, facadeVars >>

\* case <-time.After(r.s.grpcReporterFlushTimeout): the timer of this pass
\* has run out
TimedFlushTimeout ==
    /\ Alive
    /\ drain.pc = "select"
    /\ timer = grpcReporterFlushTimeout
    /\ drain' = flushBatch(drain)
    /\ timer' = 0
    /\ UNCHANGED << poster, submitted, periodicVars, closeVars, facadeVars >>

\* RequestToClose: r.exit <- struct{}{} blocks until one goroutine receives
RequestToClose ==
    /\ Alive
    /\ closeCalls < MaxCloseRequests
    /\ closeCalls' = closeCalls + 1
    /\ exit' = exit + 1
    /\ UNCHANGED << closeReturned, eventVars, periodicVars, facadeVars, timerVars >>


\* ------------------------------------------------------- time and the Sender

\* time.Time.Round(d): the nearest multiple of d, halfway values rounded up
Round(t, d) ==
    LET rem == t % d
    IN  IF rem + rem < d THEN t - rem ELSE t + d - rem

getNextTime(now, interval) ==
    LET nextTime == Round(now, interval)
    IN  IF nextTime < now THEN nextTime + interval ELSE nextTime

\* streak is history: the number of outcomes of this sender's RPC since
\* newSender while every one of them was TRY_LATER or LIMIT_EXCEEDED (counted
\* up to the retry ceiling + 2), and -1 once there was any other outcome.
newSender(initialRetryInterval) ==
    [ messages       |-> <<>>,
      nextTime       |-> 0,
      retryActive    |-> FALSE,
      nextRetryDelay |-> initialRetryInterval,
      retryTime      |-> 0,
      retries        |-> 0,
      streak         |-> 0 ]

TryLaterCodes == {"TRY_LATER", "LIMIT_EXCEEDED"}

\* history only: note the outcome of an RPC of this sender
observe(sd, res, ceiling) ==
    [sd EXCEPT !.streak = IF @ >= 0 /\ res \in TryLaterCodes
                          THEN Min(@ + 1, ceiling + 2) ELSE -1]

\* the mutant of setRetryDelay: the delay is amplified before the retry is
\* scheduled
setRetryDelay_AmplifiesFirst(sd, now, retryAmplifier, maxMetricsRetries) ==
    IF sd.retries >= maxMetricsRetries
    THEN [ret |-> FALSE, s |-> [sd EXCEPT !.retryActive = FALSE]]
    ELSE LET delay == IF sd.nextRetryDelay * retryAmplifier > Minute
                      THEN Minute ELSE sd.nextRetryDelay * retryAmplifier
         IN  [ret |-> TRUE,
              s   |-> [sd EXCEPT !.retryTime = now + delay,
                                 !.retries = @ + 1,
                                 !.retryActive = TRUE,
                                 !.nextRetryDelay = delay]]

\* Sender.setRetryDelay: ret is its result, s the sender afterwards
setRetryDelay(sd, now, retryAmplifier, maxMetricsRetries) ==
    IF sd.retries >= maxMetricsRetries
    THEN [ret |-> FALSE, s |-> [sd EXCEPT !.retryActive = FALSE]]
    ELSE [ret |-> TRUE,
          s   |-> [sd EXCEPT !.retryTime = now + sd.nextRetryDelay,
                             !.retries = @ + 1,
                             !.retryActive = TRUE,
                             !.nextRetryDelay =
                                 IF @ * retryAmplifier > Minute
                                 THEN Minute ELSE @ * retryAmplifier]]

\* ------------------------------------------------------------ the connection

NoCall == [op |-> "none", res |-> "none", arg |-> <<>>]

\* call (history): the dial or the RPC made by the last step of periodic,
\* with its outcome and, for a REDIRECT, the host in Arg.  failedDials (history): dials that failed since the last
\* dial that succeeded.
newGRPC ==
    [ client            |-> TRUE,
      status            |-> "OK",
      retries           |-> 0,
      nextRetryTime     |-> 0,
      redirects         |-> 0,
      nextKeepAliveTime |-> 0,
      currTime          |-> 0,
      call              |-> NoCall,
      failedDials       |-> 0 ]

\* a host name is a sequence of its parts, ":" being the port separator
DefaultAddr == <<"collector.librato.com", ":", "443">>
Hosts == { <<"new-collector.example.com">>, <<"next-collector.example.com">>,
           <<"other.example.com", ":", "443">> }

\* strings.Contains(host, ":")
ContainsColon(host) == \E i \in 1..Len(host) : host[i] = ":"

\* what an RPC on the metrics connection can come back with: a transport
\* error or a result code, REDIRECT with a host in Arg
Outcomes ==
    { [res |-> c, arg |-> <<>>, settings |-> <<>>] :
        c \in {"ERR", "OK", "TRY_LATER", "LIMIT_EXCEEDED", "INVALID_API_KEY"} }
    \cup { [res |-> "REDIRECT", arg |-> h, settings |-> <<>>] : h \in Hosts }

\* GetSettings may also bring a settings payload with its OK
SettingsOutcomes ==
    Outcomes \cup { [res |-> "OK", arg |-> <<>>, settings |-> <<"setting">>] }

\* newGRPCReporterWithConfig
newGRPCReporter(s) ==
    [ serverAddr     |-> DefaultAddr,
      s              |-> s,
      metricsConn    |-> newGRPC,
      metrics        |-> newSender(s.initialRetryInterval),
      status         |-> newSender(s.initialRetryInterval),
      settings       |-> newSender(s.initialRetryInterval),
      mAggExitClosed |-> FALSE,
      latestSettings |-> <<>> ]

\* history only: note a call made on the metrics connection
called(rp, op, out) ==
    [rp EXCEPT !.metricsConn.call = [op |-> op, res |-> out.res, arg |-> out.arg]]

\* the mutant of reconnect: no retry ceiling
reconnect_NoCeiling(g, s, dialOK) ==
    IF g.status = "OK" \/ g.status = "CLOSING"
    THEN g
    ELSE IF g.nextRetryTime > g.currTime
         THEN g
         ELSE LET c == [g EXCEPT !.call = [op |-> "Dial",
                                                res |-> IF dialOK THEN "OK" ELSE "ERR",
                                                arg |-> <<>>]]
              IN  IF ~dialOK
                  THEN [c EXCEPT !.nextRetryTime =
                                     g.currTime + Min(Second * ((g.retries + 1) * s.retryAmplifier),
                                                      s.maxRetryInterval),
                                 !.retries = @ + 1,
                                 !.failedDials = @ + 1]
                  ELSE [c EXCEPT !.client = TRUE,
                                 !.retries = 0,
                                 !.nextRetryTime = 0,
                                 !.status = "OK",
                                 !.nextKeepAliveTime =
                                     getNextTime(g.currTime, s.metricsConnKeepAliveInterval),
                                 !.failedDials = 0]

\* the mutant of reconnect: the next interval is not capped by maxRetryInterval
reconnect_NoCap(g, s, dialOK) ==
    IF g.status = "OK" \/ g.status = "CLOSING"
    THEN g
    ELSE IF g.retries > s.maxConnRetries
         THEN [g EXCEPT !.status = "CLOSING"]
         ELSE IF g.nextRetryTime > g.currTime
              THEN g
              ELSE LET c == [g EXCEPT !.call = [op |-> "Dial",
                                                     res |-> IF dialOK THEN "OK" ELSE "ERR",
                                                arg |-> <<>>]]
                       nextInterval == Second * ((g.retries + 1) * s.retryAmplifier)
                   IN  IF ~dialOK
                       THEN [c EXCEPT !.nextRetryTime =
                                          g.currTime + nextInterval,
                                      !.retries = @ + 1,
                                      !.failedDials = @ + 1]
                       ELSE [c EXCEPT !.client = TRUE,
                                      !.retries = 0,
                                      !.nextRetryTime = 0,
                                      !.status = "OK",
                                      !.nextKeepAliveTime =
                                          getNextTime(g.currTime, s.metricsConnKeepAliveInterval),
                                      !.failedDials = 0]

\* gRPC.reconnect; dialOK is the outcome of dialGRPC, should it be called
reconnect(g, s, dialOK) ==
    IF g.status = "OK" \/ g.status = "CLOSING"
    THEN g
    ELSE IF g.retries > s.maxConnRetries
         THEN [g EXCEPT !.status = "CLOSING"]
         ELSE IF g.nextRetryTime > g.currTime
              THEN g
              ELSE LET c == [g EXCEPT !.call = [op |-> "Dial",
                                                     res |-> IF dialOK THEN "OK" ELSE "ERR",
                                                arg |-> <<>>]]
                       nextInterval == Second * ((g.retries + 1) * s.retryAmplifier)
                   IN  IF ~dialOK
                       THEN [c EXCEPT !.nextRetryTime =
                                          g.currTime + (IF nextInterval > s.maxRetryInterval
                                                        THEN s.maxRetryInterval
                                                        ELSE nextInterval),
                                      !.retries = @ + 1,
                                      !.failedDials = @ + 1]
                       ELSE [c EXCEPT !.client = TRUE,
                                      !.retries = 0,
                                      !.nextRetryTime = 0,
                                      !.status = "OK",
                                      !.nextKeepAliveTime =
                                          getNextTime(g.currTime, s.metricsConnKeepAliveInterval),
                                      !.failedDials = 0]

\* the mutant of closeMetricsConn: the client is not set to nil
closeMetricsConn_KeepsClient(rp) ==
    IF ~rp.metricsConn.client
    THEN rp
    ELSE [rp EXCEPT !.mAggExitClosed = TRUE,
                    !.metrics.messages = <<>>,
                    !.status.messages = <<>>,
                    !.settings.messages = <<>>]

\* grpcReporter.closeMetricsConn; closing the aggregator's exit channel a
\* second time would panic
closeMetricsConn(rp) ==
    IF ~rp.metricsConn.client
    THEN rp
    ELSE [rp EXCEPT !.mAggExitClosed = TRUE,
                    !.metricsConn.client = FALSE,
                    !.metrics.messages = <<>>,
                    !.status.messages = <<>>,
                    !.settings.messages = <<>>]

\* grpcReporter.healthCheck
healthCheck(rp, dialOK) ==
    IF rp.metricsConn.status = "OK"
    THEN rp
    ELSE IF rp.metricsConn.status = "CLOSING"
         THEN closeMetricsConn(rp)
         ELSE [rp EXCEPT !.metricsConn = reconnect(rp.metricsConn, rp.s, dialOK)]

\* grpcReporter.metricsConnClosed
metricsConnClosed(rp) ==
    rp.metricsConn.status = "CLOSING" /\ ~rp.metricsConn.client

\* grpcReporter.blockTillNextTick: the time periodic goes on at
blockTillNextTick(rp, now, interval) ==
    IF rp.metricsConn.status # "OK" THEN now ELSE getNextTime(now, interval)

\* the mutant of setServerAddr: the test for a port separator is missing
setServerAddr_NoColonTest(rp, host) ==
    [ret |-> TRUE, r |-> [rp EXCEPT !.serverAddr = host]]

\* grpcReporter.setServerAddr: ret is its result, r the reporter afterwards
setServerAddr(rp, host) ==
    IF ContainsColon(host)
    THEN [ret |-> FALSE, r |-> rp]
    ELSE [ret |-> TRUE, r |-> [rp EXCEPT !.serverAddr = host]]

\* the mutant of processRedirect: the redirect ceiling is not tested
processRedirect_NoCeiling(rp, host) ==
    LET a == setServerAddr([rp EXCEPT !.metricsConn.status = "DISCONNECTED"], host)
    IN  IF a.ret
        THEN [a.r EXCEPT !.metrics.retryActive = FALSE,
                         !.metricsConn.redirects = @ + 1,
                         !.metricsConn.retries = 0,
                         !.metricsConn.nextRetryTime = 0]
        ELSE [a.r EXCEPT !.metricsConn.status = "CLOSING"]

\* the mutant of processRedirect: the metrics sender's retryActive is kept
processRedirect_KeepsRetryActive(rp, host) ==
    IF rp.metricsConn.redirects >= rp.s.maxConnRedirects
    THEN [rp EXCEPT !.metricsConn.status = "CLOSING"]
    ELSE LET a == setServerAddr([rp EXCEPT !.metricsConn.status = "DISCONNECTED"], host)
         IN  IF a.ret
             THEN [a.r EXCEPT !.metricsConn.redirects = @ + 1,
                              !.metricsConn.retries = 0,
                              !.metricsConn.nextRetryTime = 0]
             ELSE [a.r EXCEPT !.metricsConn.status = "CLOSING"]

\* grpcReporter.processRedirect
processRedirect(rp, host) ==
    IF rp.metricsConn.redirects >= rp.s.maxConnRedirects
    THEN [rp EXCEPT !.metricsConn.status = "CLOSING"]
    ELSE LET a == setServerAddr([rp EXCEPT !.metricsConn.status = "DISCONNECTED"], host)
         IN  IF a.ret
             THEN [a.r EXCEPT !.metrics.retryActive = FALSE,
                              !.metricsConn.redirects = @ + 1,
                              !.metricsConn.retries = 0,
                              !.metricsConn.nextRetryTime = 0]
             ELSE [a.r EXCEPT !.metricsConn.status = "CLOSING"]

\* ------------------------------------------------ metrics, status, settings

\* the mutant of flushMetrics: over the bound the newest message is dropped
flushMetrics_KeepsOldest(rp, flushOK) ==
    IF rp.metrics.nextTime < rp.metricsConn.currTime
    THEN LET a == [rp EXCEPT !.metrics.nextTime =
                        getNextTime(rp.metricsConn.currTime, rp.s.agentMetricsInterval)]
             msgs == Append(rp.metrics.messages, rp.metricsConn.currTime)
         IN  IF flushOK
             THEN [a EXCEPT !.metrics.messages =
                       IF Len(msgs) > rp.s.maxMetricsMessagesOnePost
                       THEN SubSeq(msgs, 1, Len(msgs) - 1) ELSE msgs]
             ELSE a
    ELSE rp

\* the metrics flush at the head of sendMetrics; flushOK: FlushBSON gave a
\* message (named here by the time of its flush)
flushMetrics(rp, flushOK) ==
    IF rp.metrics.nextTime < rp.metricsConn.currTime
    THEN LET a == [rp EXCEPT !.metrics.nextTime =
                        getNextTime(rp.metricsConn.currTime, rp.s.agentMetricsInterval)]
             msgs == Append(rp.metrics.messages, rp.metricsConn.currTime)
         IN  IF flushOK
             THEN [a EXCEPT !.metrics.messages =
                       IF Len(msgs) > rp.s.maxMetricsMessagesOnePost THEN Tail(msgs) ELSE msgs]
             ELSE a
    ELSE rp

\* the mutant of sendMetrics: the retry time is not waited for
sendMetrics_NoRetryGate(rp, flushOK, out) ==
    LET r1 == flushMetrics(rp, flushOK)
        cur == r1.metricsConn.currTime
    IN  IF FALSE
        THEN r1
        ELSE IF r1.metricsConn.status # "OK" \/ Len(r1.metrics.messages) = 0
        THEN r1
        ELSE LET r2 == [called(r1, "PostMetrics", out) EXCEPT
                           !.metrics = observe(@, out.res, r1.s.maxMetricsRetries)]
                 r3 == [r2 EXCEPT !.metricsConn.nextKeepAliveTime =
                           getNextTime(cur, r1.s.metricsConnKeepAliveInterval)]
                 d  == setRetryDelay(r3.metrics, cur, r1.s.retryAmplifier,
                                     r1.s.maxMetricsRetries)
             IN  CASE out.res = "ERR" ->
                        [r2 EXCEPT !.metricsConn.status = "DISCONNECTED"]
                   [] out.res = "OK" ->
                        [r3 EXCEPT !.metrics.messages = <<>>,
                                   !.metrics.retries = 0,
                                   !.metrics.retryActive = FALSE,
                                   !.metricsConn.redirects = 0]
                   [] out.res \in TryLaterCodes ->
                        IF d.ret
                        THEN [r3 EXCEPT !.metrics = [d.s EXCEPT !.messages = Tail(@)]]
                        ELSE [r3 EXCEPT !.metrics = d.s]
                   [] out.res = "INVALID_API_KEY" ->
                        [r3 EXCEPT !.metricsConn.status = "CLOSING",
                                   !.metrics.messages = <<>>]
                   [] out.res = "REDIRECT" ->
                        processRedirect(r3, out.arg)

\* grpcReporter.sendMetrics; out is what PostMetrics comes back with, should
\* it be called
sendMetrics(rp, flushOK, out) ==
    LET r1 == flushMetrics(rp, flushOK)
        cur == r1.metricsConn.currTime
    IN  IF r1.metrics.retryActive /\ r1.metrics.retryTime > cur
        THEN r1
        ELSE IF r1.metricsConn.status # "OK" \/ Len(r1.metrics.messages) = 0
        THEN r1
        ELSE LET r2 == [called(r1, "PostMetrics", out) EXCEPT
                           !.metrics = observe(@, out.res, r1.s.maxMetricsRetries)]
                 r3 == [r2 EXCEPT !.metricsConn.nextKeepAliveTime =
                           getNextTime(cur, r1.s.metricsConnKeepAliveInterval)]
                 d  == setRetryDelay(r3.metrics, cur, r1.s.retryAmplifier,
                                     r1.s.maxMetricsRetries)
             IN  CASE out.res = "ERR" ->
                        [r2 EXCEPT !.metricsConn.status = "DISCONNECTED"]
                   [] out.res = "OK" ->
                        [r3 EXCEPT !.metrics.messages = <<>>,
                                   !.metrics.retries = 0,
                                   !.metrics.retryActive = FALSE,
                                   !.metricsConn.redirects = 0]
                   [] out.res \in TryLaterCodes ->
                        IF d.ret
                        THEN [r3 EXCEPT !.metrics = [d.s EXCEPT !.messages = Tail(@)]]
                        ELSE [r3 EXCEPT !.metrics = d.s]
                   [] out.res = "INVALID_API_KEY" ->
                        [r3 EXCEPT !.metricsConn.status = "CLOSING",
                                   !.metrics.messages = <<>>]
                   [] out.res = "REDIRECT" ->
                        processRedirect(r3, out.arg)

\* grpcReporter.loadStatusMsgs with k messages waiting in sMsgs
loadStatusMsgs(rp, k) ==
    [rp EXCEPT !.status.messages = @ \o [i \in 1..k |-> rp.metricsConn.currTime]]

\* the mutant of sendStatus: the test of the connection status is missing
sendStatus_NoStatusTest(rp, k, out) ==
    LET cur == rp.metricsConn.currTime
    IN  IF rp.status.retryActive /\ rp.status.retryTime > cur
        THEN rp
        ELSE LET r1 == IF Len(rp.status.messages) > 0 THEN rp ELSE loadStatusMsgs(rp, k)
             IN  IF Len(r1.status.messages) > 0
                 THEN LET r2 == [called(r1, "PostStatus", out) EXCEPT
                                    !.status = observe(@, out.res, r1.s.maxMetricsRetries)]
                          r3 == [r2 EXCEPT !.metricsConn.nextKeepAliveTime =
                                    getNextTime(cur, r1.s.metricsConnKeepAliveInterval)]
                          d  == setRetryDelay(r3.status, cur, r1.s.retryAmplifier,
                                              r1.s.maxMetricsRetries)
                      IN  CASE out.res = "ERR" ->
                                 [r2 EXCEPT !.metricsConn.status = "DISCONNECTED"]
                            [] out.res = "OK" ->
                                 [r3 EXCEPT !.status.messages = <<>>,
                                            !.status.retryActive = FALSE,
                                            !.metricsConn.redirects = 0]
                            [] out.res \in TryLaterCodes ->
                                 IF d.ret
                                 THEN [r3 EXCEPT !.status = [d.s EXCEPT !.messages = <<>>]]
                                 ELSE [r3 EXCEPT !.status = d.s]
                            [] out.res = "INVALID_API_KEY" ->
                                 [r3 EXCEPT !.metricsConn.status = "CLOSING",
                                            !.status.messages = <<>>]
                            [] out.res = "REDIRECT" ->
                                 processRedirect(r3, out.arg)
                 ELSE r1

\* grpcReporter.sendStatus; k messages wait in sMsgs, out is what PostStatus
\* comes back with, should it be called
sendStatus(rp, k, out) ==
    LET cur == rp.metricsConn.currTime
    IN  IF rp.metricsConn.status # "OK"
        THEN rp
        ELSE IF rp.status.retryActive /\ rp.status.retryTime > cur
        THEN rp
        ELSE LET r1 == IF Len(rp.status.messages) > 0 THEN rp ELSE loadStatusMsgs(rp, k)
             IN  IF Len(r1.status.messages) > 0
                 THEN LET r2 == [called(r1, "PostStatus", out) EXCEPT
                                    !.status = observe(@, out.res, r1.s.maxMetricsRetries)]
                          r3 == [r2 EXCEPT !.metricsConn.nextKeepAliveTime =
                                    getNextTime(cur, r1.s.metricsConnKeepAliveInterval)]
                          d  == setRetryDelay(r3.status, cur, r1.s.retryAmplifier,
                                              r1.s.maxMetricsRetries)
                      IN  CASE out.res = "ERR" ->
                                 [r2 EXCEPT !.metricsConn.status = "DISCONNECTED"]
                            [] out.res = "OK" ->
                                 [r3 EXCEPT !.status.messages = <<>>,
                                            !.status.retryActive = FALSE,
                                            !.metricsConn.redirects = 0]
                            [] out.res \in TryLaterCodes ->
                                 IF d.ret
                                 THEN [r3 EXCEPT !.status = [d.s EXCEPT !.messages = <<>>]]
                                 ELSE [r3 EXCEPT !.status = d.s]
                            [] out.res = "INVALID_API_KEY" ->
                                 [r3 EXCEPT !.metricsConn.status = "CLOSING",
                                            !.status.messages = <<>>]
                            [] out.res = "REDIRECT" ->
                                 processRedirect(r3, out.arg)
                 ELSE r1

\* storeSettings: an empty payload leaves latestSettings as it is
storeSettings(rp, payload) ==
    IF Len(payload) > 0 THEN [rp EXCEPT !.latestSettings = payload] ELSE rp

\* the mutant of getSettings: INVALID_API_KEY is taken for a lost connection
getSettings_InvalidKeyDisconnects(rp, out) ==
    LET tn == rp.metricsConn.currTime
    IN  IF rp.metricsConn.status # "OK"
        THEN rp
        ELSE IF (~rp.settings.retryActive
                   /\ (rp.settings.nextTime < tn \/ rp.metricsConn.nextKeepAliveTime < tn))
                \/ (rp.settings.retryActive /\ rp.settings.retryTime < tn)
        THEN LET r2 == [called(rp, "GetSettings", out) EXCEPT
                           !.settings = observe(@, out.res, rp.s.maxMetricsRetries)]
                 r3 == [r2 EXCEPT !.metricsConn.nextKeepAliveTime =
                           getNextTime(tn, rp.s.metricsConnKeepAliveInterval)]
                 d  == setRetryDelay([r3.settings EXCEPT !.retries = 0], tn,
                                     rp.s.retryAmplifier, rp.s.maxMetricsRetries)
             IN  CASE out.res = "ERR" ->
                        [r2 EXCEPT !.metricsConn.status = "DISCONNECTED"]
                   [] out.res = "OK" ->
                        [storeSettings(r3, out.settings) EXCEPT
                            !.settings.nextTime = getNextTime(tn, rp.s.agentSettingsInterval),
                            !.settings.retryActive = FALSE,
                            !.metricsConn.redirects = 0]
                   [] out.res \in TryLaterCodes ->
                        [r3 EXCEPT !.settings = d.s]
                   [] out.res = "INVALID_API_KEY" ->
                        [r3 EXCEPT !.metricsConn.status = "DISCONNECTED"]
                   [] out.res = "REDIRECT" ->
                        processRedirect(r3, out.arg)
        ELSE rp

\* grpcReporter.getSettings; out is what GetSettings comes back with, should
\* it be called
getSettings(rp, out) ==
    LET tn == rp.metricsConn.currTime
    IN  IF rp.metricsConn.status # "OK"
        THEN rp
        ELSE IF (~rp.settings.retryActive
                   /\ (rp.settings.nextTime < tn \/ rp.metricsConn.nextKeepAliveTime < tn))
                \/ (rp.settings.retryActive /\ rp.settings.retryTime < tn)
        THEN LET r2 == [called(rp, "GetSettings", out) EXCEPT
                           !.settings = observe(@, out.res, rp.s.maxMetricsRetries)]
                 r3 == [r2 EXCEPT !.metricsConn.nextKeepAliveTime =
                           getNextTime(tn, rp.s.metricsConnKeepAliveInterval)]
                 d  == setRetryDelay([r3.settings EXCEPT !.retries = 0], tn,
                                     rp.s.retryAmplifier, rp.s.maxMetricsRetries)
             IN  CASE out.res = "ERR" ->
                        [r2 EXCEPT !.metricsConn.status = "DISCONNECTED"]
                   [] out.res = "OK" ->
                        [storeSettings(r3, out.settings) EXCEPT
                            !.settings.nextTime = getNextTime(tn, rp.s.agentSettingsInterval),
                            !.settings.retryActive = FALSE,
                            !.metricsConn.redirects = 0]
                   [] out.res \in TryLaterCodes ->
                        [r3 EXCEPT !.settings = d.s]
                   [] out.res = "INVALID_API_KEY" ->
                        [r3 EXCEPT !.metricsConn.status = "CLOSING"]
                   [] out.res = "REDIRECT" ->
                        processRedirect(r3, out.arg)
        ELSE rp

\* InvalidateOutdatedSettings: the timeout afterwards
InvalidateOutdatedSettings(timeout, curr, interval) ==
    IF timeout < curr THEN getNextTime(curr, interval) ELSE timeout

\* ------------------------------------------------------ the periodic goroutine

\* An environment of the periodic goroutine: what PostMetrics and PostStatus
\* (outcomes) and GetSettings (settingsOutcomes) may come back with, whether
\* FlushBSON and dialGRPC may succeed or fail, how many status messages may
\* wait in sMsgs, and the last instant of the wall clock.
EnvFull ==
    [ outcomes |-> Outcomes, settingsOutcomes |-> SettingsOutcomes,
      flush |-> BOOLEAN, dial |-> BOOLEAN, load |-> 0..MaxStatusLoad,
      maxTime |-> MaxTime ]

\* the collector never asks to retry later nor redirects
EnvConn ==
    [ outcomes |-> { o \in Outcomes : o.res \in {"ERR", "OK", "INVALID_API_KEY"} },
      settingsOutcomes |-> { o \in Outcomes : o.res \in {"ERR", "OK", "INVALID_API_KEY"} },
      flush |-> BOOLEAN, dial |-> BOOLEAN, load |-> 0..MaxStatusLoad,
      maxTime |-> MaxTimeConn ]

\* the transport never fails and the collector answers OK, TRY_LATER or
\* LIMIT_EXCEEDED
EnvRetry ==
    [ outcomes |-> { o \in Outcomes : o.res \in {"OK"} \cup TryLaterCodes },
      settingsOutcomes |-> { o \in Outcomes : o.res \in {"OK"} \cup TryLaterCodes },
      flush |-> BOOLEAN, dial |-> BOOLEAN, load |-> 0..MaxStatusLoad,
      maxTime |-> MaxTimeRetry ]

\* the transport never fails and the collector answers OK, TRY_LATER or
\* REDIRECT with a host
EnvRedirect ==
    [ outcomes |-> { o \in Outcomes : o.res \in {"OK", "TRY_LATER", "REDIRECT"} },
      settingsOutcomes |-> { o \in Outcomes : o.res \in {"OK", "TRY_LATER", "REDIRECT"} },
      flush |-> BOOLEAN, dial |-> BOOLEAN, load |-> 0..MaxStatusLoad,
      maxTime |-> MaxTime ]

\* the transport may fail, the dial may fail, the collector answers OK or
\* TRY_LATER, and FlushBSON gives a message whenever it is called
EnvGate ==
    [ outcomes |-> { o \in Outcomes : o.res \in {"OK", "TRY_LATER", "ERR"} },
      settingsOutcomes |-> { o \in Outcomes : o.res \in {"OK", "TRY_LATER", "ERR"} },
      flush |-> {TRUE}, dial |-> BOOLEAN, load |-> 0..MaxStatusLoad,
      maxTime |-> MaxTimeRetry ]

\* periodic before its loop: the deadlines are set from time.Now()
PeriodicStart ==
    /\ Alive
    /\ pcPeriodic = "start"
    /\ r' = [r EXCEPT !.metricsConn.nextKeepAliveTime =
                          getNextTime(clock, r.s.metricsConnKeepAliveInterval),
                      !.metrics.nextTime = getNextTime(clock, r.s.agentMetricsInterval)]
    /\ checkTTLTimeout' = getNextTime(clock, r.s.agentCheckSettingsTTLInterval)
    /\ pcPeriodic' = "sendMetrics"
    /\ UNCHANGED << clock, polledSinceClose, eventVars, closeVars, facadeVars, timerVars >>

\* the head of an iteration: the clock has advanced by d when time.Now() is
\* read, blockTillNextTick gives currTime, then sendMetrics
PeriodicSendMetrics(env) ==
    /\ Alive
    /\ pcPeriodic = "sendMetrics"
    /\ \E d \in 0..MaxStep, flushOK \in env.flush, out \in env.outcomes :
         /\ clock + d <= env.maxTime
         /\ LET curr == blockTillNextTick(r, clock + d, r.s.agentMetricsTickInterval)
            IN  /\ clock' = curr
                /\ r' = sendMetrics([r EXCEPT !.metricsConn.currTime = curr,
                                              !.metricsConn.call = NoCall],
                                    flushOK, out)
    /\ pcPeriodic' = "sendStatus"
    /\ UNCHANGED << checkTTLTimeout, polledSinceClose, eventVars, closeVars, facadeVars, timerVars >>

PeriodicSendStatus(env) ==
    /\ Alive
    /\ pcPeriodic = "sendStatus"
    /\ \E k \in env.load, out \in env.outcomes :
         r' = sendStatus([r EXCEPT !.metricsConn.call = NoCall], k, out)
    /\ pcPeriodic' = "getSettings"
    /\ UNCHANGED << clock, checkTTLTimeout, polledSinceClose, eventVars, closeVars, facadeVars, timerVars >>

PeriodicGetSettings(env) ==
    /\ Alive
    /\ pcPeriodic = "getSettings"
    /\ \E out \in env.settingsOutcomes :
         r' = getSettings([r EXCEPT !.metricsConn.call = NoCall], out)
    /\ pcPeriodic' = "finish"
    /\ UNCHANGED << clock, checkTTLTimeout, polledSinceClose, eventVars, closeVars, facadeVars, timerVars >>

\* the tail of an iteration: InvalidateOutdatedSettings, the non-blocking
\* receive from r.exit, healthCheck, and the test that ends the loop
PeriodicFinish(env) ==
    /\ Alive
    /\ pcPeriodic = "finish"
    /\ checkTTLTimeout' = InvalidateOutdatedSettings(checkTTLTimeout, r.metricsConn.currTime,
                                                     r.s.agentCheckSettingsTTLInterval)
    /\ exit' = IF exit > 0 THEN exit - 1 ELSE exit
    /\ closeReturned' = IF exit > 0 THEN closeReturned + 1 ELSE closeReturned
    /\ polledSinceClose' = (polledSinceClose \/ closeReturned > 0 \/ exit > 0)
    /\ \E dialOK \in env.dial :
         LET r0 == [r EXCEPT !.metricsConn.call = NoCall]
             r1 == IF exit > 0 THEN [r0 EXCEPT !.metricsConn.status = "CLOSING"] ELSE r0
             r2 == healthCheck(r1, dialOK)
         IN  /\ r' = r2
             /\ pcPeriodic' = IF metricsConnClosed(r2) THEN "done" ELSE "sendMetrics"
    /\ UNCHANGED << clock, closeCalls, eventVars, facadeVars, timerVars >>

\* -------------------------------------------------------- PushMetricsRecord

\* push (history): whether PushMetricsRecord was called, the connection
\* status at that moment, and whether the record went to the aggregator
newPush == [called |-> FALSE, status |-> "OK", handed |-> FALSE]

\* grpcReporter.IsMetricsConnOpen as a producer may see it: the read of
\* r.metricsConn.client is not synchronized with periodic, so once periodic
\* has set it to nil the producer may still read the client it held before
IsMetricsConnOpen(rp) ==
    IF rp.metricsConn.client THEN {TRUE} ELSE BOOLEAN

\* grpcReporter.PushMetricsRecord called by a producer, at any point of
\* periodic
PushMetricsRecord ==
    /\ Alive
    /\ \E open \in IsMetricsConnOpen(r) :
         push' = [called |-> TRUE, status |-> r.metricsConn.status, handed |-> open]
    /\ UNCHANGED << periodicVars, eventVars, closeVars, rep, glob, callers, timerVars >>

\* ---------------------------------------------------------- globalReporter

\* goroutines that call globalReporter()
NumCallers == 3
Callers == 1..NumCallers

\* the package variables before init(): initGlobalReporterOnce (once),
\* initGlobalReporterChan (chanClosed), _globalReporter (reporter, by the
\* type of the reporter), reportingDisabled; hostnameCached: init() has
\* run; inits (history): the runs of initReporter
newGlob ==
    [ hostnameCached    |-> FALSE,
      once              |-> "new",
      chanClosed        |-> FALSE,
      reporter          |-> "nullReporter",
      reportingDisabled |-> FALSE,
      inits             |-> 0 ]

newCaller == [pc |-> "idle", ret |-> "none"]

\* init() of the package: cacheHostname disables the reporting when the
\* host name cannot be read
CacheHostname ==
    /\ ~glob.hostnameCached
    /\ \E err \in BOOLEAN :
         glob' = [glob EXCEPT !.hostnameCached = TRUE,
                              !.reportingDisabled = IF err THEN TRUE ELSE @]
    /\ UNCHANGED << periodicVars, eventVars, closeVars, rep, push, callers, timerVars >>

\* newUDPReporter and newGRPCReporter by the type of their result; ok: the
\* service key is set and the dials succeed
newReporter(rType, disabled, ok) ==
    IF disabled \/ ~ok
    THEN "nullReporter"
    ELSE IF rType = "udp" THEN "udpReporter" ELSE "grpcReporter"

\* initReporter: the package variables afterwards
initReporter(g, rType, ok) ==
    LET built == newReporter(rType, g.reportingDisabled, ok)
    IN  [g EXCEPT !.reporter = built,
                  !.reportingDisabled = (built # "nullReporter"),
                  !.chanClosed = TRUE,
                  !.inits = @ + 1]

\* globalReporter(): initGlobalReporterOnce.Do, entered by the first caller
\* only; the others wait in Do until initReporter has returned
GlobalReporterCall(c) ==
    /\ glob.hostnameCached
    /\ callers[c].pc = "idle"
    /\ IF glob.once = "new"
       THEN /\ glob' = [glob EXCEPT !.once = "running"]
            /\ callers' = [callers EXCEPT ![c].pc = "init"]
       ELSE /\ callers' = [callers EXCEPT ![c].pc = "do"]
            /\ UNCHANGED glob
    /\ UNCHANGED << periodicVars, eventVars, closeVars, rep, push, timerVars >>

\* the first caller runs initReporter
GlobalReporterInit(c) ==
    /\ callers[c].pc = "init"
    /\ \E rType \in {"udp", "ssl"}, ok \in BOOLEAN :
         glob' = [initReporter(glob, rType, ok) EXCEPT !.once = "done"]
    /\ callers' = [callers EXCEPT ![c].pc = "wait"]
    /\ UNCHANGED << periodicVars, eventVars, closeVars, rep, push, timerVars >>

\* Do returns for a caller that did not run initReporter
GlobalReporterDoReturn(c) ==
    /\ callers[c].pc = "do"
    /\ glob.once = "done"
    /\ callers' = [callers EXCEPT ![c].pc = "wait"]
    /\ UNCHANGED << glob, periodicVars, eventVars, closeVars, rep, push, timerVars >>

\* <-initGlobalReporterChan, then the reporter is chosen and returned
GlobalReporterReturn(c) ==
    /\ callers[c].pc = "wait"
    /\ glob.chanClosed
    /\ callers' = [callers EXCEPT ![c].pc = "done",
                                  ![c].ret = IF glob.reportingDisabled
                                             THEN "nullReporter"
                                             ELSE glob.reporter]
    /\ UNCHANGED << glob, periodicVars, eventVars, closeVars, rep, push, timerVars >>

\* ------------------------------------------------------------- reportEvent

\* the reporters reportEvent may be handed: the gRPC reporter of this module,
\* whose event client is never nil, and a nullReporter
Reporters == {"grpcReporter", "nullReporter"}

\* reporter.IsOpen
IsOpen(rpt) == rpt = "grpcReporter"

TaskIDs == {"task1", "task2"}
OpIDs == {"op1", "op2"}

\* the events handed to reportEvent; len is the length of the finished BSON
\* buffer
Events == [taskID : TaskIDs, opID : OpIDs, len : {10}]

\* the mutant of reportEvent: the op_id of the event is not compared
reportEvent_NoOpIDTest(rpt, ctx, e) ==
    IF ~IsOpen(rpt)
    THEN [ret |-> "nil", ctx |-> ctx, write |-> FALSE]
    ELSE IF ctx.taskID # e.taskID
    THEN [ret |-> "error", ctx |-> ctx, write |-> FALSE]
    ELSE [ret |-> "nil", ctx |-> [ctx EXCEPT !.opID = e.opID], write |-> TRUE]

\* reportEvent up to its call of r.WritePacket: ret is the result when it
\* returns before, ctx the context afterwards, write whether WritePacket is
\* called
reportEvent(rpt, ctx, e) ==
    IF ~IsOpen(rpt)
    THEN [ret |-> "nil", ctx |-> ctx, write |-> FALSE]
    ELSE IF ctx.taskID # e.taskID
    THEN [ret |-> "error", ctx |-> ctx, write |-> FALSE]
    ELSE IF ctx.opID = e.opID
    THEN [ret |-> "error", ctx |-> ctx, write |-> FALSE]
    ELSE [ret |-> "nil", ctx |-> [ctx EXCEPT !.opID = e.opID], write |-> TRUE]

\* a caller with its context; rpt, e and ctx0 (the context when reportEvent
\* was called) and written (the buffers the call wrote) are history
newRep ==
    [ pc      |-> "idle",
      ctx     |-> [taskID |-> "task1", opID |-> "op1"],
      rpt     |-> "grpcReporter",
      e       |-> [taskID |-> "task1", opID |-> "op1", len |-> 10],
      ctx0    |-> [taskID |-> "task1", opID |-> "op1"],
      ret     |-> "none",
      written |-> 0 ]

\* a call of reportEvent as far as r.WritePacket
ReportEventCall ==
    /\ Alive
    /\ rep.pc \in {"idle", "done"}
    /\ \E rpt \in Reporters, e \in Events :
         LET res == reportEvent(rpt, rep.ctx, e)
         IN  rep' = [ pc      |-> IF res.write THEN "write" ELSE "done",
                      ctx     |-> res.ctx,
                      rpt     |-> rpt,
                      e       |-> e,
                      ctx0    |-> rep.ctx,
                      ret     |-> IF res.write THEN "none" ELSE res.ret,
                      written |-> 0 ]
    /\ UNCHANGED << periodicVars, eventVars, closeVars, push, glob, callers, timerVars >>

\* r.WritePacket(e.bbuf.buf) of the gRPC reporter: the send on r.ch is taken
\* by the select of reportEvents, then reportEvent returns nil
ReportEventWrite ==
    /\ Alive
    /\ rep.pc = "write"
    /\ drain.pc = "select"
    /\ Len(submitted) < MaxSubmit
    /\ submitted' = Append(submitted, rep.e.len)
    /\ drain' = handleEvent(drain, [seq |-> Len(submitted) + 1, len |-> rep.e.len],
                            r.s.maxEventBytes)
    /\ rep' = [rep EXCEPT !.pc = "done", !.ret = "nil", !.written = 1]
    /\ UNCHANGED << poster, periodicVars, closeVars, push, glob, callers, timerVars >>

\* ------------------------------------------------------------ specifications

Init ==
    /\ r \in { newGRPCReporter(s) : s \in Configs }
    /\ clock = 1
    /\ pcPeriodic = "start"
    /\ checkTTLTimeout = 0
    /\ exit = 0
    /\ drain = newDrain
    /\ poster = newPoster
    /\ submitted = <<>>
    /\ closeCalls = 0
    /\ closeReturned = 0
    /\ polledSinceClose = FALSE
    /\ rep = newRep
    /\ push = newPush
    /\ glob = newGlob
    /\ callers = [c \in Callers |-> newCaller]
    /\ timer = 0

\* The periodic controller, the close requests, and of the event pipeline
\* the one step that touches what periodic reads: its select taking a close
\* request from r.exit (no event is submitted, so its batch stays empty).
Next ==
    \/ PeriodicStart
    \/ PeriodicSendMetrics(EnvFull)
    \/ PeriodicSendStatus(EnvFull)
    \/ PeriodicGetSettings(EnvFull)
    \/ PeriodicFinish(EnvFull)
    \/ RequestToClose
    \/ EventsExit

Spec == Init /\ [][Next]_vars

\* The periodic controller alone, over a longer time, with a collector that
\* answers OK, INVALID_API_KEY or not at all and a dial that may fail.
NextConn ==
    \/ PeriodicStart
    \/ PeriodicSendMetrics(EnvConn)
    \/ PeriodicSendStatus(EnvConn)
    \/ PeriodicGetSettings(EnvConn)
    \/ PeriodicFinish(EnvConn)

SpecConn == Init /\ [][NextConn]_vars

\* The periodic controller alone, over a longer time, with a collector that
\* answers every call with OK, TRY_LATER or LIMIT_EXCEEDED.
NextRetry ==
    \/ PeriodicStart
    \/ PeriodicSendMetrics(EnvRetry)
    \/ PeriodicSendStatus(EnvRetry)
    \/ PeriodicGetSettings(EnvRetry)
    \/ PeriodicFinish(EnvRetry)

SpecRetry == Init /\ [][NextRetry]_vars

\* The periodic controller alone, over the longer time, with a transport
\* that may fail, a collector that answers OK or TRY_LATER, and an
\* aggregator whose flush gives a message.
NextGate ==
    \/ PeriodicStart
    \/ PeriodicSendMetrics(EnvGate)
    \/ PeriodicSendStatus(EnvGate)
    \/ PeriodicGetSettings(EnvGate)
    \/ PeriodicFinish(EnvGate)

SpecGate == Init /\ [][NextGate]_vars

\* The goroutines that call globalReporter() after the package's init().
NextGlobal ==
    \/ CacheHostname
    \/ \E c \in Callers : GlobalReporterCall(c)
    \/ \E c \in Callers : GlobalReporterInit(c)
    \/ \E c \in Callers : GlobalReporterDoReturn(c)
    \/ \E c \in Callers : GlobalReporterReturn(c)

SpecGlobal == Init /\ [][NextGlobal]_vars

\* The periodic controller as under SpecConn, with producers that call
\* PushMetricsRecord.
NextPush ==
    \/ PeriodicStart
    \/ PeriodicSendMetrics(EnvConn)
    \/ PeriodicSendStatus(EnvConn)
    \/ PeriodicGetSettings(EnvConn)
    \/ PeriodicFinish(EnvConn)
    \/ PushMetricsRecord

SpecPush == Init /\ [][NextPush]_vars

\* The periodic controller alone with a collector that answers OK, TRY_LATER
\* or REDIRECT.
NextRedirect ==
    \/ PeriodicStart
    \/ PeriodicSendMetrics(EnvRedirect)
    \/ PeriodicSendStatus(EnvRedirect)
    \/ PeriodicGetSettings(EnvRedirect)
    \/ PeriodicFinish(EnvRedirect)

SpecRedirect == Init /\ [][NextRedirect]_vars

\* A caller of reportEvent with the event pipeline behind the gRPC reporter.
NextReport ==
    \/ ReportEventCall
    \/ ReportEventWrite
    \/ FlushTimeout
    \/ BatchesHandoff
    \/ PostEventsReturn
    \/ RecvResult

SpecReport == Init /\ [][NextReport]_vars

\* The event pipeline with its producers and the close requests.  The
\* periodic goroutine shares only r.exit with it and can only take a close
\* request away from it, which leaves the pipeline on a run it also has here.
NextEvents ==
    \/ WritePacket
    \/ RecvResult
    \/ RecvClosedResult
    \/ FlushTimeout
    \/ BatchesHandoff
    \/ PostEventsReturn
    \/ PosterRangeEnd
    \/ EventsExit
    \/ RequestToClose

SpecEvents == Init /\ [][NextEvents]_vars

\* The event pipeline with the timer of its select.  Time advances, a timer
\* that has run out fires unless another case of the select is taken first,
\* a result is received, a batch is handed over, and every PostEvents call
\* returns; when the producers submit is up to them.
NextFlush ==
    \/ Tick
    \/ TimedWritePacket
    \/ TimedRecvResult
    \/ TimedFlushTimeout
    \/ BatchesHandoff
    \/ PostEventsReturn

SpecFlush ==
    /\ Init
    /\ [][NextFlush]_vars
    /\ WF_vars(Tick)
    /\ WF_vars(TimedFlushTimeout)
    /\ WF_vars(TimedRecvResult)
    /\ WF_vars(BatchesHandoff)
    /\ WF_vars(PostEventsReturn)

\* ------------------------------------------------------ the event pipeline

\* the buffers submitted since the last flush, in the order of submission
SubmittedBuffers == [i \in 1..Len(submitted) |-> [seq |-> i, len |-> submitted[i]]]

NotOversize(b) == b.len <= r.s.maxEventBytes

IsSuffix(a, b) == Len(a) <= Len(b) /\ a = SubSeq(b, Len(b) - Len(a) + 1, Len(b))

\* what is left of batch once buffers were evicted from its front only until
\* a buffer of n bytes, n <= maxEventBytes, fits under the ceiling
RECURSIVE EvictUntilRoom(_, _)
EvictUntilRoom(batch, n) ==
    IF SumLen(batch) + n <= r.s.maxEventBytes
    THEN batch
    ELSE EvictUntilRoom(Tail(batch), n)

\* C1: between two flushes the pending batch is a contiguous suffix of the
\* buffers submitted that are not larger than maxEventBytes, the sum of its
\* lengths is at most maxEventBytes, and taking a submission never fails: to
\* make room the oldest buffers are evicted first.
C1_PendingBatchIsBoundedSuffix ==
    /\ drain.pc # "panic"
    /\ SumLen(drain.batch) <= r.s.maxEventBytes
    /\ IsSuffix(drain.batch, SelectSeq(SubmittedBuffers, NotOversize))

\* C2: a buffer of at most maxEventBytes is appended after buffers were
\* evicted from the front only until it fits (with the ceiling at 25, the
\* batch [10] taking a buffer of 20 becomes [20], and then [20, 5]).
C2_EvictsOnlyUntilRoom ==
    [][\A n \in EventSizes :
          (submitted' = Append(submitted, n) /\ n <= r.s.maxEventBytes)
             => /\ drain'.pc # "panic"
                /\ drain'.batch = Append(EvictUntilRoom(drain.batch, n),
                                         [seq |-> Len(submitted) + 1, len |-> n])]_vars

\* C3: a buffer larger than maxEventBytes is dropped: taking it leaves the
\* pending batch and the running byte total as they were, and no such buffer
\* is ever in the pending batch or in a batch given to the poster.
C3_OversizeBufferDropped ==
    /\ [][\A n \in EventSizes :
            (submitted' = Append(submitted, n) /\ n > r.s.maxEventBytes)
               => (drain'.batch = drain.batch /\ drain'.eventBytes = drain.eventBytes)]_vars
    /\ [](\A i \in 1..Len(drain.batch) : drain.batch[i].len <= r.s.maxEventBytes)
    /\ [](\A i \in 1..Len(poster.batch) : poster.batch[i].len <= r.s.maxEventBytes)

\* an oversize buffer was submitted while a batch was pending, and the batch
\* is still there
C3_Witness ==
    /\ Len(submitted) >= 2
    /\ submitted[Len(submitted)] > r.s.maxEventBytes
    /\ Len(drain.batch) > 0
    /\ drain.pc = "select"

\* C4: at most one batch is outstanding: the drain loop never hands a batch
\* over while the poster has not given back the result of the previous one,
\* and meanwhile logIsRunning is set.
C4_AtMostOneBatchOutstanding ==
    /\ ~(drain.pc = "send" /\ poster.pc \in {"rpc", "send"})
    /\ (drain.pc = "send" \/ poster.pc \in {"rpc", "send"}) => drain.logIsRunning

\* the post of a batch is in flight while the next batch is waiting
C4_Witness ==
    /\ poster.pc = "rpc"
    /\ drain.pc = "select"
    /\ Len(drain.batch) > 0

\* ------------------------------------------------------------ close requests

\* C5: one close request reaches both goroutines: once the one call of
\* RequestToClose has returned and periodic has run its exit check, the
\* status of the metrics connection is CLOSING.
C5_OneCloseRequestReachesPeriodic ==
    (closeCalls = 1 /\ closeReturned = 1 /\ polledSinceClose)
       => r.metricsConn.status = "CLOSING"

\* -------------------------------------------------------------- the senders

Senders == << r.metrics, r.status, r.settings >>
PostOf == << "PostMetrics", "PostStatus", "GetSettings" >>

\* C6: after n consecutive TRY_LATER or LIMIT_EXCEEDED responses counted from
\* a reset, n up to the retry ceiling, the stored backoff delay is
\* min(maxRetryInterval, initialRetryInterval * retryAmplifier^n).
C6_BackoffClosedForm ==
    \A i \in 1..3 :
       (Senders[i].streak >= 0 /\ Senders[i].streak <= r.s.maxMetricsRetries)
          => Senders[i].nextRetryDelay =
                Min(r.s.maxRetryInterval,
                    r.s.initialRetryInterval * Pow(r.s.retryAmplifier, Senders[i].streak))

\* C7: an OK response to a sender's post resets its backoff delay to
\* initialRetryInterval.
C7_BackoffResetOnOK ==
    \A i \in 1..3 :
       r.metricsConn.call = [op |-> PostOf[i], res |-> "OK", arg |-> <<>>]
          => Senders[i].nextRetryDelay = r.s.initialRetryInterval

\* C10: a sender makes at most maxMetricsRetries retries of a post answered
\* with TRY_LATER or LIMIT_EXCEEDED, and the iteration in which the retries
\* are abandoned leaves the connection CLOSING.
C10_RetriesBoundedThenClosing ==
    \A i \in 1..3 :
       /\ Senders[i].streak <= r.s.maxMetricsRetries + 1
       /\ (Senders[i].streak = r.s.maxMetricsRetries + 1 /\ pcPeriodic = "sendMetrics")
             => r.metricsConn.status = "CLOSING"

\* ----------------------------------------------------------- the connection

\* C8 as stated: never more than maxConnRetries consecutive failed dials.
C8_AtMostMaxConnRetriesDials ==
    r.metricsConn.failedDials <= r.s.maxConnRetries

\* C8: the consecutive failed dials never exceed maxConnRetries + 1, and an
\* iteration that ends without a dial when there have been that many has
\* set the status to CLOSING.
C8_AtMostMaxConnRetriesPlusOneDials ==
    /\ r.metricsConn.failedDials <= r.s.maxConnRetries + 1
    /\ ( /\ r.metricsConn.failedDials = r.s.maxConnRetries + 1
         /\ pcPeriodic \in {"sendMetrics", "done"}
         /\ r.metricsConn.call.op # "Dial" )
          => r.metricsConn.status = "CLOSING"

\* the ceiling was passed: maxConnRetries + 1 dials failed, then CLOSING
C8_Witness ==
    /\ r.metricsConn.failedDials = r.s.maxConnRetries + 1
    /\ r.metricsConn.status = "CLOSING"

\* C9: CLOSING is terminal: a step taken when the status is CLOSING leaves
\* it CLOSING and makes no dial.
C9_ClosingIsTerminal ==
    [][r.metricsConn.status = "CLOSING"
          => (r'.metricsConn.status = "CLOSING" /\ r'.metricsConn.call.op # "Dial")]_vars

\* the status became CLOSING in sendMetrics, with the rest of the iteration
\* and the health check still to run on the open connection
C9_Witness ==
    /\ r.metricsConn.status = "CLOSING"
    /\ r.metricsConn.client
    /\ pcPeriodic = "sendStatus"

\* ---------------------------------------------------------------- redirects

\* this step of periodic made a call that came back with REDIRECT
RedirectStep ==
    /\ pcPeriodic' # pcPeriodic
    /\ r'.metricsConn.call.res = "REDIRECT"

\* the retry state of a sender
RetryState(sd) ==
    [ retryActive |-> sd.retryActive, retryTime |-> sd.retryTime,
      retries |-> sd.retries, nextRetryDelay |-> sd.nextRetryDelay ]

\* C11: a REDIRECT that arrives when maxConnRedirects redirects have been
\* accepted since the last OK sets the status to CLOSING, whatever the host,
\* and leaves the server address and the redirect counter as they were; the
\* counter never passes maxConnRedirects.
C11_RedirectCeilingForcesClosing ==
    /\ [][(RedirectStep /\ r.metricsConn.redirects >= r.s.maxConnRedirects)
            => /\ r'.metricsConn.status = "CLOSING"
               /\ r'.serverAddr = r.serverAddr
               /\ r'.metricsConn.redirects = r.metricsConn.redirects]_vars
    /\ [](r.metricsConn.redirects <= r.s.maxConnRedirects)

\* a REDIRECT with a valid host arrived at the ceiling
C11_Witness ==
    /\ r.metricsConn.call.res = "REDIRECT"
    /\ ~ContainsColon(r.metricsConn.call.arg)
    /\ r.metricsConn.redirects = r.s.maxConnRedirects
    /\ r.metricsConn.status = "CLOSING"
    /\ r.serverAddr # r.metricsConn.call.arg

\* C12: a REDIRECT below the ceiling whose host contains ":" is rejected:
\* the server address and the redirect counter stay as they were and the
\* status ends as CLOSING.
C12_HostWithPortRejected ==
    [][(/\ RedirectStep
        /\ ContainsColon(r'.metricsConn.call.arg)
        /\ r.metricsConn.redirects < r.s.maxConnRedirects)
          => /\ r'.serverAddr = r.serverAddr
             /\ r'.metricsConn.redirects = r.metricsConn.redirects
             /\ r'.metricsConn.status = "CLOSING"]_vars

\* a host with a port was rejected after one redirect had been accepted
C12_Witness ==
    /\ r.metricsConn.call.res = "REDIRECT"
    /\ ContainsColon(r.metricsConn.call.arg)
    /\ r.metricsConn.redirects = 1
    /\ r.metricsConn.status = "CLOSING"
    /\ r.serverAddr # r.metricsConn.call.arg

\* C13: a REDIRECT below the ceiling with a bare host installs the host,
\* sets the status to DISCONNECTED, adds exactly 1 to the redirect counter,
\* resets the connection's retries and nextRetryTime, clears the metrics
\* sender's retryActive, and leaves the retry state of the status and
\* settings senders as it was.
C13_RedirectAccepted ==
    [][(/\ RedirectStep
        /\ ~ContainsColon(r'.metricsConn.call.arg)
        /\ r.metricsConn.redirects < r.s.maxConnRedirects)
          => /\ r'.serverAddr = r'.metricsConn.call.arg
             /\ r'.metricsConn.status = "DISCONNECTED"
             /\ r'.metricsConn.redirects = r.metricsConn.redirects + 1
             /\ r'.metricsConn.retries = 0
             /\ r'.metricsConn.nextRetryTime = 0
             /\ ~r'.metrics.retryActive
             /\ RetryState(r'.status) = RetryState(r.status)
             /\ RetryState(r'.settings) = RetryState(r.settings)]_vars

\* a redirect was accepted while the metrics sender was waiting to retry:
\* its retry counter is 1 and retryActive is cleared
C13_Witness ==
    /\ r.metricsConn.call.res = "REDIRECT"
    /\ r.serverAddr = r.metricsConn.call.arg
    /\ r.metricsConn.status = "DISCONNECTED"
    /\ r.metricsConn.redirects >= 1
    /\ r.metrics.retries = 1
    /\ ~r.metrics.retryActive

\* ------------------------------------------------------------- reportEvent

\* the event of the last call does not go with the context the call found
InvalidEvent == rep.e.taskID # rep.ctx0.taskID \/ rep.e.opID = rep.ctx0.opID

\* what C14 says of a call that has returned
ReportEventContract ==
    /\ InvalidEvent => /\ rep.ret = "error"
                       /\ rep.written = 0
                       /\ rep.ctx.opID = rep.ctx0.opID
    /\ rep.ret = "nil" => /\ rep.ctx.opID = rep.e.opID
                          /\ rep.written = 1

\* C14 as stated: whatever the reporter, an event with another task id or
\* with the context's op id makes reportEvent fail, write nothing and leave
\* the context's op id; a successful call leaves the event's op id in the
\* context and has written exactly one buffer.
C14_ReportEventValidates ==
    rep.pc = "done" => ReportEventContract

\* C14: that holds when the reporter is open; when it is not, reportEvent
\* returns nil without looking at the event, writes nothing and leaves the
\* context as it was.
C14_ReportEventValidatesWhenOpen ==
    rep.pc = "done" =>
       IF IsOpen(rep.rpt)
       THEN ReportEventContract
       ELSE rep.ret = "nil" /\ rep.written = 0 /\ rep.ctx = rep.ctx0

\* after a successful call, a call on the open reporter with the op id the
\* context now has was refused
C14_Witness ==
    /\ rep.pc = "done"
    /\ IsOpen(rep.rpt)
    /\ rep.ctx0.opID # newRep.ctx.opID
    /\ rep.e.taskID = rep.ctx0.taskID
    /\ rep.e.opID = rep.ctx0.opID
    /\ rep.ret = "error"

\* -------------------------------------------------------- PushMetricsRecord

\* C15: PushMetricsRecord hands the record to the aggregator only when the
\* connection is healthy: called when the status is DISCONNECTED or CLOSING,
\* it does not touch the aggregator.
C15_PushOnlyWhenHealthy ==
    (push.called /\ push.status \in {"DISCONNECTED", "CLOSING"}) => ~push.handed

\* ----------------------------------------------------------- globalReporter

\* C16: initReporter runs at most once, a call of globalReporter returns
\* only after it has finished, and returns the reporter initReporter built:
\* the gRPC or UDP reporter when one was built, not a no-op reporter.
C16_CallersGetTheReporterBuilt ==
    /\ glob.inits <= 1
    /\ \A c \in Callers :
          callers[c].pc = "done"
             => /\ glob.inits = 1
                /\ glob.once = "done"
                /\ callers[c].ret = glob.reporter

\* ------------------------------------------------------------ setRetryDelay

SenderOf(rp, i) == << rp.metrics, rp.status, rp.settings >>[i]

\* this step of periodic made the call of sender i and it came back with
\* TRY_LATER or LIMIT_EXCEEDED
TryLaterStep(i) ==
    /\ pcPeriodic' # pcPeriodic
    /\ r'.metricsConn.call.op = PostOf[i]
    /\ r'.metricsConn.call.res \in TryLaterCodes

\* C17: setRetryDelay, as sendMetrics and sendStatus call it on a TRY_LATER:
\* with the retry counter at the ceiling it clears retryActive, leaves
\* retryTime, nextRetryDelay and retries, and returns false (the status
\* queue is kept); below the ceiling it sets retryTime to now plus the delay
\* held before, adds 1 to retries, sets retryActive and returns true (the
\* status queue is emptied).  From a new sender, the first two TRY_LATERs
\* schedule initialRetryInterval and retryAmplifier times that, and leave
\* retries at 2.
C17_SetRetryDelay ==
    /\ [][\A i \in 1..2 :
            TryLaterStep(i) =>
               IF SenderOf(r, i).retries >= r.s.maxMetricsRetries
               THEN /\ ~SenderOf(r', i).retryActive
                    /\ SenderOf(r', i).retryTime = SenderOf(r, i).retryTime
                    /\ SenderOf(r', i).nextRetryDelay = SenderOf(r, i).nextRetryDelay
                    /\ SenderOf(r', i).retries = SenderOf(r, i).retries
                    /\ (i = 2 => r'.status.messages # <<>>)
               ELSE /\ SenderOf(r', i).retryActive
                    /\ SenderOf(r', i).retryTime =
                          r'.metricsConn.currTime + SenderOf(r, i).nextRetryDelay
                    /\ SenderOf(r', i).retries = SenderOf(r, i).retries + 1
                    /\ (i = 2 => r'.status.messages = <<>>)]_vars
    /\ [](\A i \in 1..2 :
            (r.metricsConn.call.op = PostOf[i] /\ r.metricsConn.call.res \in TryLaterCodes)
               => /\ Senders[i].streak = 1
                     => /\ Senders[i].retryTime =
                              r.metricsConn.currTime + r.s.initialRetryInterval
                        /\ Senders[i].retries = 1
                  /\ Senders[i].streak = 2
                     => /\ Senders[i].retryTime =
                              r.metricsConn.currTime
                                 + r.s.initialRetryInterval * r.s.retryAmplifier
                        /\ Senders[i].retries = 2)

\* the status sender was answered TRY_LATER twice and a third time, at the
\* ceiling
C17_Witness ==
    /\ r.metricsConn.call.op = "PostStatus"
    /\ r.metricsConn.call.res \in TryLaterCodes
    /\ r.status.streak = r.s.maxMetricsRetries + 1
    /\ r.status.retries = r.s.maxMetricsRetries
    /\ ~r.status.retryActive

\* C18: after an OK result the sender's queue is empty, its retryActive is
\* false and its retry counter 0, and the redirect counter is 0, for the
\* metrics, the status and the settings sender alike.
C18_OKResetsSender ==
    \A i \in 1..3 :
       (r.metricsConn.call.op = PostOf[i] /\ r.metricsConn.call.res = "OK")
          => /\ Senders[i].messages = <<>>
             /\ ~Senders[i].retryActive
             /\ Senders[i].retries = 0
             /\ r.metricsConn.redirects = 0

\* ------------------------------------------------- TRY_LATER and transport errors

\* the metrics queue when PostMetrics is called in this step: the queue
\* before, after the flush at the head of sendMetrics
MetricsQueueAtPost ==
    { flushMetrics([r EXCEPT !.metricsConn.currTime = r'.metricsConn.currTime],
                   flushOK).metrics.messages : flushOK \in BOOLEAN }

\* the status queue when PostStatus is called in this step: the queue
\* before or, if that was empty, what loadStatusMsgs loaded
StatusQueueAtPost ==
    IF r.status.messages # <<>>
    THEN { r.status.messages }
    ELSE { loadStatusMsgs(r, k).status.messages : k \in 1..MaxStatusLoad }

\* C19: every TRY_LATER or LIMIT_EXCEEDED schedules a retry and applies the
\* data-loss policy: the metrics sender loses exactly its oldest message,
\* the status sender its whole queue.
C19_TryLaterSchedulesAndDrops ==
    [][/\ TryLaterStep(1)
            => /\ r'.metrics.retryActive
               /\ \E q \in MetricsQueueAtPost :
                     q # <<>> /\ r'.metrics.messages = Tail(q)
       /\ TryLaterStep(2)
            => /\ r'.status.retryActive
               /\ r'.status.messages = <<>>]_vars

\* this step of periodic made the call of sender i and the transport failed
ErrorStep(i) ==
    /\ pcPeriodic' # pcPeriodic
    /\ r'.metricsConn.call.op = PostOf[i]
    /\ r'.metricsConn.call.res = "ERR"

\* C20: a transport error of PostMetrics, PostStatus or GetSettings sets the
\* status to DISCONNECTED, leaves the sender's queue and retry state and the
\* keep-alive deadline as they were, and the rest of the iteration makes no
\* call.
C20_TransportErrorStops ==
    /\ [][\A i \in 1..3 :
            ErrorStep(i)
               => /\ r'.metricsConn.status = "DISCONNECTED"
                  /\ RetryState(SenderOf(r', i)) = RetryState(SenderOf(r, i))
                  /\ r'.metricsConn.nextKeepAliveTime = r.metricsConn.nextKeepAliveTime
                  /\ SenderOf(r', i).messages \in
                        (CASE i = 1 -> MetricsQueueAtPost
                           [] i = 2 -> StatusQueueAtPost
                           [] i = 3 -> { r.settings.messages })]_vars
    /\ [][( /\ r.metricsConn.status = "DISCONNECTED"
            /\ pcPeriodic \in {"sendStatus", "getSettings"}
            /\ pcPeriodic' # pcPeriodic )
             => r'.metricsConn.call = NoCall]_vars

\* PostStatus failed with its queue loaded, getSettings made no call, and
\* the iteration is at its health check
C20_Witness ==
    /\ pcPeriodic = "finish"
    /\ r.metricsConn.status = "DISCONNECTED"
    /\ r.metricsConn.call = NoCall
    /\ r.metricsConn.failedDials = 0
    /\ r.status.messages # <<>>

\* --------------------------------------------------------- INVALID_API_KEY

\* this step of periodic made the call of sender i and it came back with
\* INVALID_API_KEY
InvalidKeyStep(i) ==
    /\ pcPeriodic' # pcPeriodic
    /\ r'.metricsConn.call.op = PostOf[i]
    /\ r'.metricsConn.call.res = "INVALID_API_KEY"

\* C21: an INVALID_API_KEY result sets the status to CLOSING and discards
\* the queue of the sender that made the call; from then on, the status
\* being CLOSING, periodic makes no PostMetrics, PostStatus or GetSettings
\* call and no dial.
C21_InvalidKeyClosesForGood ==
    /\ [][\A i \in 1..3 :
            InvalidKeyStep(i)
               => /\ r'.metricsConn.status = "CLOSING"
                  /\ SenderOf(r', i).messages = <<>>]_vars
    /\ [][(r.metricsConn.status = "CLOSING" /\ pcPeriodic' # pcPeriodic)
             => (r'.metricsConn.status = "CLOSING" /\ r'.metricsConn.call = NoCall)]_vars

\* a status post came back with INVALID_API_KEY: the status queue is
\* discarded
C21_Witness ==
    /\ r.metricsConn.call.op = "PostStatus"
    /\ r.metricsConn.call.res = "INVALID_API_KEY"
    /\ r.metricsConn.status = "CLOSING"
    /\ r.status.messages = <<>>
    /\ r.metricsConn.currTime >= 2

\* ------------------------------------------------------------------ reconnect

\* this step of periodic dialled
DialStep ==
    /\ pcPeriodic' # pcPeriodic
    /\ r'.metricsConn.call.op = "Dial"

\* C22: a dial is made only while DISCONNECTED and not before nextRetryTime;
\* a failed dial at tick time t with k retries sets nextRetryTime to
\* t + min(maxRetryInterval, (k+1)*retryAmplifier seconds) and the counter
\* to k+1, the status staying DISCONNECTED; a successful dial sets HEALTHY,
\* the counter to 0 and clears nextRetryTime.
C22_ReconnectSchedule ==
    [][DialStep =>
         LET g == r.metricsConn
             h == r'.metricsConn
         IN  /\ g.status = "DISCONNECTED"
             /\ h.currTime = g.currTime
             /\ g.nextRetryTime <= g.currTime
             /\ h.call.res = "ERR"
                  => /\ h.nextRetryTime = g.currTime
                            + Min(r.s.maxRetryInterval,
                                  (g.retries + 1) * r.s.retryAmplifier * Second)
                     /\ h.retries = g.retries + 1
                     /\ h.status = "DISCONNECTED"
             /\ h.call.res = "OK"
                  => /\ h.status = "OK"
                     /\ h.retries = 0
                     /\ h.nextRetryTime = 0]_vars

\* a second dial in a row has failed and its interval was capped by
\* maxRetryInterval
C22_Witness ==
    /\ r.metricsConn.call = [op |-> "Dial", res |-> "ERR", arg |-> <<>>]
    /\ r.metricsConn.retries = 2
    /\ 2 * r.s.retryAmplifier * Second > r.s.maxRetryInterval
    /\ r.metricsConn.nextRetryTime = r.metricsConn.currTime + r.s.maxRetryInterval
    /\ r.metricsConn.status = "DISCONNECTED"

\* ------------------------------------------------------- closing the loop

\* this step of periodic is the exit poll and the health check of an
\* iteration
HealthCheckStep == pcPeriodic = "finish" /\ pcPeriodic' # pcPeriodic

\* the status healthCheck finds: the exit poll before it sets CLOSING when a
\* close request is waiting
ClosingAtHealthCheck == r.metricsConn.status = "CLOSING" \/ exit > 0

\* C23: an iteration whose health check finds the status CLOSING releases
\* the client, clears the three queues, closes the aggregator's exit channel
\* for the first and only time, and ends the loop; an iteration whose health
\* check finds HEALTHY or DISCONNECTED does not end the loop.
C23_ClosingReleasesOnceAndEndsLoop ==
    /\ [][(HealthCheckStep /\ ClosingAtHealthCheck)
             => /\ ~r.mAggExitClosed
                /\ r'.mAggExitClosed
                /\ ~r'.metricsConn.client
                /\ r'.metrics.messages = <<>>
                /\ r'.status.messages = <<>>
                /\ r'.settings.messages = <<>>
                /\ pcPeriodic' = "done"]_vars
    /\ [][(HealthCheckStep /\ ~ClosingAtHealthCheck) => pcPeriodic' # "done"]_vars
    /\ [](r.mAggExitClosed => pcPeriodic = "done")
    /\ [](pcPeriodic = "done" => r.metricsConn.status = "CLOSING")

\* the loop has ended on a close request, the resources released
C23_Witness ==
    /\ pcPeriodic = "done"
    /\ closeReturned = 1
    /\ r.mAggExitClosed
    /\ ~r.metricsConn.client
    /\ r.metricsConn.currTime >= 2

\* ------------------------------------------------- the pipeline after exit

\* C24: once reportEvents has taken the exit signal and closed batches, it
\* takes no further buffer and attempts no further flush, so that nothing is
\* sent on the closed channel and the channel is not closed again: the drain
\* loop has stopped.
C24_DrainStopsAfterExit ==
    [][drain.batchesClosed
          => /\ drain'.pc = "select"
             /\ drain'.batch = drain.batch
             /\ drain'.batchesClosed]_vars


\* ------------------------------------------------------- the flush timeout

\* C25: a non-empty batch with no post in flight is handed to the poster
\* within the flush timeout, however often new buffers arrive: the drain
\* loop leaves its select for the send on batches (or the batch is gone).
C25_NonEmptyBatchIsHandedOver ==
    (drain.pc = "select" /\ drain.batch # <<>> /\ ~drain.logIsRunning)
       ~> (drain.pc # "select" \/ drain.batch = <<>>)

\* ------------------------------------------------------ the running total

\* C26: the running total eventBytes is the sum of the lengths of the
\* buffers in the batch, evictions included, and the eviction loop never
\* takes an element from an empty batch.
C26_EventBytesIsBatchTotal ==
    /\ drain.eventBytes = SumLen(drain.batch)
    /\ drain.pc # "panic"

\* ------------------------------------------------------ when a call is made

\* this step of periodic made the call of sender i
CallStep(i) ==
    /\ pcPeriodic' # pcPeriodic
    /\ r'.metricsConn.call.op = PostOf[i]

\* C27: PostMetrics, PostStatus and GetSettings are called only when the
\* status is HEALTHY, and PostMetrics and PostStatus are not called while
\* the sender's retryActive is set and its retryTime is later than the tick
\* time.
C27_CallsOnlyWhenHealthyAndDue ==
    [][\A i \in 1..3 :
          CallStep(i)
             => /\ r.metricsConn.status = "OK"
                /\ i \in {1, 2}
                     => ~(/\ SenderOf(r, i).retryActive
                          /\ SenderOf(r, i).retryTime > r'.metricsConn.currTime)]_vars

\* sendMetrics has just returned without a call, the connection HEALTHY and
\* a message queued, because the retry time is yet to come
C27_Witness ==
    /\ pcPeriodic = "sendStatus"
    /\ r.metricsConn.call = NoCall
    /\ r.metricsConn.status = "OK"
    /\ r.metrics.messages # <<>>
    /\ r.metrics.retryActive
    /\ r.metrics.retryTime > r.metricsConn.currTime

\* ---------------------------------------------------------- the metrics queue

\* the queue q after the snapshot flushed at time t is put on it, with at
\* most bound messages kept
Flushed(q, t, bound) ==
    LET a == Append(q, t)
    IN  IF Len(a) > bound THEN SubSeq(a, 2, Len(a)) ELSE a

\* this step of periodic is the head of the iteration with sendMetrics
SendMetricsStep == pcPeriodic = "sendMetrics" /\ pcPeriodic' = "sendStatus"

============================================================================
